---- MODULE Spec2Model ----
(***************************************************************************)
(* Model of the examplar-parser combinator library (src/lib.rs).           *)
(*                                                                         *)
(* A &str is modelled as the sequence of its UTF-8 bytes; a char is its    *)
(* Unicode scalar value.  One behaviour of the model is one call of        *)
(* Parser::parse on a parser built by the public constructors, on one      *)
(* input.  Between::parse is modelled loop iteration by loop iteration;    *)
(* the other parsers return in one step.                                   *)
(***************************************************************************)
EXTENDS Integers, Sequences, FiniteSets

(* ----------------------------- bounds ---------------------------------- *)

\* longest enumerated input, in code points
MaxLen == 3
\* largest small repetition limit enumerated for between / at_least
MaxLimit == 3
\* longest candidate list given to one_of
MaxOptions == 2
\* the long inputs have U8Max .. U8Max + MaxOver matching code points
MaxOver == 1

\* largest value of the u8 repetition counter and limits
U8Max == 255

(* ------------------------ strings and chars ---------------------------- *)

\* the code points of the model: '1', 'a', U+00E9 (2 bytes), U+20AC (3 bytes)
Chars == {49, 97, 233, 8364}

\* char::len_utf8
LenUtf8(c) == IF c < 128 THEN 1 ELSE IF c < 2048 THEN 2 ELSE IF c < 65536 THEN 3 ELSE 4

\* char::encode_utf8 : the bytes of one code point
EncodeUtf8(c) ==
  IF c < 128 THEN <<c>>
  ELSE IF c < 2048 THEN <<192 + (c \div 64), 128 + (c % 64)>>
  ELSE IF c < 65536 THEN
    <<224 + (c \div 4096), 128 + ((c \div 64) % 64), 128 + (c % 64)>>
  ELSE <<240 + (c \div 262144), 128 + ((c \div 4096) % 64),
         128 + ((c \div 64) % 64), 128 + (c % 64)>>

\* the &str holding the code points of w, in order
RECURSIVE StrOf(_)
StrOf(w) == IF w = <<>> THEN <<>> ELSE EncodeUtf8(Head(w)) \o StrOf(Tail(w))

\* str::is_char_boundary
IsCharBoundary(s, i) ==
  \/ i = 0
  \/ i = Len(s)
  \/ i < Len(s) /\ ~(s[i + 1] >= 128 /\ s[i + 1] < 192)

\* str::starts_with(char): the encoding of c is a byte prefix of s
StartsWith(s, c) ==
  /\ Len(s) >= LenUtf8(c)
  /\ SubSeq(s, 1, LenUtf8(c)) = EncodeUtf8(c)

\* input.chars().next() on a non-empty str: decode the first code point
FirstChar(s) ==
  LET b == s[1] IN
  IF b < 128 THEN b
  ELSE IF b < 224 THEN (b - 192) * 64 + (s[2] - 128)
  ELSE IF b < 240 THEN (b - 224) * 4096 + (s[2] - 128) * 64 + (s[3] - 128)
  ELSE (b - 240) * 262144 + (s[2] - 128) * 4096 + (s[3] - 128) * 64 + (s[4] - 128)

(* --------------------------- results ----------------------------------- *)

\* ParseError
GenericError == [kind |-> "GenericError"]
ExpectingCharacter(c) == [kind |-> "ExpectingCharacter", c |-> c]
ExpectingPredicate == [kind |-> "ExpectingPredicate"]
ExpectingOneOfToParse == [kind |-> "ExpectingOneOfToParse"]
EndOfInput == [kind |-> "EndOfInput"]

\* Result<(T, &str), ParseError>
Ok(v, rest) == [tag |-> "Ok", value |-> v, rest |-> rest]
Err(e) == [tag |-> "Err", err |-> e]
\* a panic unwinding out of parse: the call returns nothing
Panic(why) == [tag |-> "Panic", why |-> why]
\* parse has not returned yet
Pending == [tag |-> "Pending"]

BoundaryPanic == "byte index 1 is not a char boundary"
OverflowPanic == "attempt to add with overflow"

\* &input[1..] : the byte slice from offset 1, which panics off a char boundary
SliceFrom1(s) ==
  IF IsCharBoundary(s, 1) THEN [ok |-> TRUE, str |-> SubSeq(s, 2, Len(s))]
  ELSE [ok |-> FALSE, str |-> <<>>]

(* ---------------------------- parsers ---------------------------------- *)

\* Character::parse reporting the end of the input apart from a mismatch
CharacterParseEndOfInput(character_to_match, input) ==
  IF input = <<>> THEN Err(EndOfInput)
  ELSE IF StartsWith(input, character_to_match)
  THEN LET rest == SliceFrom1(input) IN
       IF rest.ok THEN Ok(character_to_match, rest.str) ELSE Panic(BoundaryPanic)
  ELSE Err(ExpectingCharacter(character_to_match))

\* Character::parse
CharacterParse(character_to_match, input) ==
  IF StartsWith(input, character_to_match)
  THEN LET rest == SliceFrom1(input) IN
       IF rest.ok THEN Ok(character_to_match, rest.str) ELSE Panic(BoundaryPanic)
  ELSE Err(ExpectingCharacter(character_to_match))

\* Any::parse ; the predicate is the set of chars it accepts
AnyParse(predicate, input) ==
  IF input # <<>>
  THEN LET c == FirstChar(input) IN
       IF c \in predicate
       THEN LET rest == SliceFrom1(input) IN
            IF rest.ok THEN Ok(c, rest.str) ELSE Panic(BoundaryPanic)
       ELSE Err(ExpectingPredicate)
  ELSE Err(EndOfInput)

\* Parser::parse of a primitive parser value
PrimParse(p, input) ==
  IF p.kind = "Character" THEN CharacterParse(p.character_to_match, input)
  ELSE AnyParse(p.predicate, input)

\* Map::parse replacing the inner error by GenericError
MapParseGenericError(p, input) ==
  LET attempt == PrimParse(p.parser, input) IN
  IF attempt.tag = "Ok" THEN Ok(p.map[attempt.value], attempt.rest)
  ELSE IF attempt.tag = "Err" THEN Err(GenericError)
  ELSE attempt

\* Map::parse
MapParse(p, input) ==
  LET attempt == PrimParse(p.parser, input) IN
  IF attempt.tag = "Ok" THEN Ok(p.map[attempt.value], attempt.rest) ELSE attempt

\* Parser::parse of the parser a combinator wraps
InnerParse(p, input) ==
  IF p.kind = "Map" THEN MapParse(p, input) ELSE PrimParse(p, input)

\* OneOf::parse keeping the last success instead of returning the first
RECURSIVE OneOfFromLast(_, _, _)
OneOfFromLast(options, i, input) ==
  IF i > Len(options) THEN Err(ExpectingOneOfToParse)
  ELSE LET attempt == InnerParse(options[i], input)
           later == OneOfFromLast(options, i + 1, input)
       IN IF attempt.tag = "Panic" THEN attempt
          ELSE IF later.tag # "Err" THEN later
          ELSE IF attempt.tag = "Ok" THEN attempt
          ELSE later

\* OneOf::parse : the for loop over the options from index i on
RECURSIVE OneOfFrom(_, _, _)
OneOfFrom(options, i, input) ==
  IF i > Len(options) THEN Err(ExpectingOneOfToParse)
  ELSE LET attempt == InnerParse(options[i], input) IN
       IF attempt.tag = "Ok" \/ attempt.tag = "Panic" THEN attempt
       ELSE OneOfFrom(options, i + 1, input)

OneOfParse(p, input) == OneOfFrom(p.options, 1, input)

\* Limit::is_bigger_then
IsBiggerThen(limit, n) ==
  IF limit.tag = "At" THEN limit.threshold > n ELSE TRUE

(* ----------------------- constructors and inputs ----------------------- *)

\* character(c)
Character(c) == [kind |-> "Character", character_to_match |-> c]
\* any(predicate)
Any(predicate) == [kind |-> "Any", predicate |-> predicate]
\* map(parser, f)
Map(parser, f) == [kind |-> "Map", parser |-> parser, map |-> f]
\* Between::new
BetweenNew(lower_limit, upper_limit, parser) ==
  [kind |-> "Between", lower_limit |-> lower_limit, upper_limit |-> upper_limit,
   parser |-> parser]
At(n) == [tag |-> "At", threshold |-> n]
Infinity == [tag |-> "Infinity"]
\* between(lo, hi, p), at_least(lo, p), many(p)
Between(lower_limit, upper_limit, parser) == BetweenNew(lower_limit, At(upper_limit), parser)
AtLeast(lower_limit, parser) == BetweenNew(lower_limit, Infinity, parser)
Many(parser) == AtLeast(0, parser)
\* one_of(options)
OneOf(options) == [kind |-> "OneOf", options |-> options]

\* |c| c.is_ascii_digit()
IsAsciiDigit == {c \in Chars : c >= 48 /\ c <= 57}
\* |c| !c.is_ascii()
NotAscii == {c \in Chars : c >= 128}
\* the predicates given to any: the two above and |_| true
Predicates == {IsAsciiDigit, NotAscii, Chars}

\* |c| c.to_digit(10).unwrap_or(0)
ToDigit == [c \in Chars |-> IF c \in IsAsciiDigit THEN c - 48 ELSE 0]
\* |c| c as u32 + 1
NextCode == [c \in Chars |-> c + 1]

Prims == {Character(c) : c \in Chars} \cup {Any(q) : q \in Predicates}
Maps == {Map(p, f) : p \in Prims, f \in {ToDigit, NextCode}}

\* the u8 limits the model enumerates: the small ones and the largest
Limits == (0 .. MaxLimit) \cup {U8Max}
\* the parsers given to the combinators: over an ASCII and a two-byte code
\* point, over the digits and over every code point
Inners == {Character(49), Character(233), Any(IsAsciiDigit), Any(Chars)}
InnerMaps == {Map(Any(q), f) : q \in {IsAsciiDigit, Chars}, f \in {ToDigit, NextCode}}
Betweens ==
  {Between(lo, hi, p) : lo \in Limits, hi \in Limits, p \in Inners}
  \cup {AtLeast(lo, p) : lo \in Limits, p \in Inners}
  \cup {Many(p) : p \in Inners \cup InnerMaps}

RECURSIVE SeqsUpTo(_, _)
SeqsUpTo(S, n) ==
  IF n = 0 THEN {<<>>}
  ELSE LET shorter == SeqsUpTo(S, n - 1) IN
       shorter \cup {Append(w, x) : w \in shorter, x \in S}

\* a Vec<P> holds parsers of one type: all Character, or all Any
OneOfs ==
  {OneOf(o) : o \in SeqsUpTo({Character(c) : c \in Chars}, MaxOptions)}
  \cup {OneOf(o) : o \in SeqsUpTo({Any(q) : q \in Predicates}, MaxOptions)}
  \cup {OneOf(o) : o \in SeqsUpTo(InnerMaps, MaxOptions)}

Parsers == Prims \cup Maps \cup Betweens \cup OneOfs

\* the str of n code points c, for a c of one byte (c < 128)
Repeat(c, n) == [i \in 1 .. n |-> EncodeUtf8(c)[1]]

\* every str of at most MaxLen code points
ShortInputs == {StrOf(w) : w \in SeqsUpTo(Chars, MaxLen)}
\* strs of about 2^8 code points '1', then nothing or an 'a'
LongInputs ==
  {Repeat(49, n) \o StrOf(t) : n \in U8Max .. (U8Max + MaxOver), t \in {<<>>, <<97>>}}
Inputs == ShortInputs \cup LongInputs

(* ------------------------------ state ---------------------------------- *)

VARIABLES
  parser,   \* the parser value parse is called on (self)
  input,    \* the &str parse is called with
  checked,  \* whether the build has overflow checks (debug) or wraps (release)
  pc,       \* where the call is: "call", "mandatory", "optional", "return", "done"
  result,   \* Between::parse: the Vec of values collected
  source,   \* Between::parse: the unconsumed rest of the input
  count,    \* Between::parse: the u8 repetition counter
  ret       \* what the call returned, Pending before it has

vars == <<parser, input, checked, pc, result, source, count, ret>>

Init ==
  /\ parser \in Parsers
  /\ input \in Inputs
  /\ checked \in BOOLEAN
  /\ pc = "call"
  /\ result = <<>>
  /\ source = <<>>
  /\ count = 0
  /\ ret = Pending

\* the call of a parser that returns in one step
Return(r) ==
  /\ ret' = r
  /\ pc' = "done"
  /\ UNCHANGED <<parser, input, checked, result, source, count>>

CharacterCall ==
  /\ pc = "call" /\ parser.kind = "Character"
  /\ Return(CharacterParse(parser.character_to_match, input))

AnyCall ==
  /\ pc = "call" /\ parser.kind = "Any"
  /\ Return(AnyParse(parser.predicate, input))

MapCall ==
  /\ pc = "call" /\ parser.kind = "Map"
  /\ Return(MapParse(parser, input))

OneOfCall ==
  /\ pc = "call" /\ parser.kind = "OneOf"
  /\ Return(OneOfParse(parser, input))

\* Between::parse, the three lets
BetweenEnter ==
  /\ pc = "call" /\ parser.kind = "Between"
  /\ result' = <<>>
  /\ source' = input
  /\ count' = 0
  /\ pc' = "mandatory"
  /\ UNCHANGED <<parser, input, checked, ret>>

\* count += 1 on a u8, after the push: panics with overflow checks, wraps without
Collect(attempt, loop) ==
  /\ result' = Append(result, attempt.value)
  /\ source' = attempt.rest
  /\ IF count = U8Max /\ checked
     THEN /\ ret' = Panic(OverflowPanic)
          /\ pc' = "done"
          /\ count' = count
     ELSE /\ count' = (count + 1) % (U8Max + 1)
          /\ pc' = loop
          /\ ret' = ret

\* one pass of the first while loop, or leaving it
MandatoryStep ==
  /\ pc = "mandatory"
  /\ UNCHANGED <<parser, input, checked>>
  /\ IF count < parser.lower_limit
     THEN LET attempt == InnerParse(parser.parser, source) IN
          IF attempt.tag = "Ok" THEN Collect(attempt, "mandatory")
          ELSE /\ ret' = attempt
               /\ pc' = "done"
               /\ UNCHANGED <<result, source, count>>
     ELSE /\ pc' = "optional"
          /\ UNCHANGED <<result, source, count, ret>>

\* the second while loop with continue in place of break
OptionalStepContinue ==
  /\ pc = "optional"
  /\ UNCHANGED <<parser, input, checked>>
  /\ IF IsBiggerThen(parser.upper_limit, count)
     THEN LET attempt == InnerParse(parser.parser, source) IN
          IF attempt.tag = "Ok" THEN Collect(attempt, "optional")
          ELSE IF attempt.tag = "Panic"
          THEN /\ ret' = attempt
               /\ pc' = "done"
               /\ UNCHANGED <<result, source, count>>
          ELSE /\ pc' = "optional"
               /\ UNCHANGED <<result, source, count, ret>>
     ELSE /\ pc' = "return"
          /\ UNCHANGED <<result, source, count, ret>>

\* the second while loop returning the inner error like the first
OptionalStepPropagates ==
  /\ pc = "optional"
  /\ UNCHANGED <<parser, input, checked>>
  /\ IF IsBiggerThen(parser.upper_limit, count)
     THEN LET attempt == InnerParse(parser.parser, source) IN
          IF attempt.tag = "Ok" THEN Collect(attempt, "optional")
          ELSE /\ ret' = attempt
               /\ pc' = "done"
               /\ UNCHANGED <<result, source, count>>
     ELSE /\ pc' = "return"
          /\ UNCHANGED <<result, source, count, ret>>

\* one pass of the second while loop, or leaving it
OptionalStep ==
  /\ pc = "optional"
  /\ UNCHANGED <<parser, input, checked>>
  /\ IF IsBiggerThen(parser.upper_limit, count)
     THEN LET attempt == InnerParse(parser.parser, source) IN
          IF attempt.tag = "Ok" THEN Collect(attempt, "optional")
          ELSE IF attempt.tag = "Panic"
          THEN /\ ret' = attempt
               /\ pc' = "done"
               /\ UNCHANGED <<result, source, count>>
          ELSE /\ pc' = "return"
               /\ UNCHANGED <<result, source, count, ret>>
     ELSE /\ pc' = "return"
          /\ UNCHANGED <<result, source, count, ret>>

\* Ok((result, source))
BetweenReturn ==
  /\ pc = "return"
  /\ ret' = Ok(result, source)
  /\ pc' = "done"
  /\ UNCHANGED <<parser, input, checked, result, source, count>>

Next ==
  \/ CharacterCall
  \/ AnyCall
  \/ MapCall
  \/ OneOfCall
  \/ BetweenEnter
  \/ MandatoryStep
  \/ OptionalStep
  \/ BetweenReturn

Spec == Init /\ [][Next]_vars

\* parse is an ordinary synchronous call: a step that can be taken is taken
LiveSpec == Spec /\ WF_vars(Next)

(* ------------------- vocabulary of the properties ---------------------- *)

\* s with its first code point removed (s non-empty)
DropFirstCodePoint(s) == SubSeq(s, LenUtf8(FirstChar(s)) + 1, Len(s))

\* the code points parser p matches
Matches(p, c) ==
  IF p.kind = "Character" THEN c = p.character_to_match
  ELSE IF p.kind = "Any" THEN c \in p.predicate
  ELSE IF p.parser.kind = "Character" THEN c = p.parser.character_to_match
  ELSE c \in p.parser.predicate

\* s starts with a code point p matches
StartsWithMatch(p, s) == s # <<>> /\ Matches(p, FirstChar(s))

\* the number of consecutive matches of p that s starts with
RECURSIVE LeadingMatches(_, _)
LeadingMatches(p, s) ==
  IF StartsWithMatch(p, s) THEN 1 + LeadingMatches(p, DropFirstCodePoint(s)) ELSE 0

\* s with its first n code points removed
RECURSIVE DropCodePoints(_, _)
DropCodePoints(s, n) ==
  IF n = 0 THEN s ELSE DropCodePoints(DropFirstCodePoint(s), n - 1)

\* the error primitive p reports on a str that does not start with a match
MismatchError(p, s) ==
  IF p.kind = "Character" THEN ExpectingCharacter(p.character_to_match)
  ELSE IF s = <<>> THEN EndOfInput ELSE ExpectingPredicate

Min(a, b) == IF a < b THEN a ELSE b

Done(kind) == pc = "done" /\ parser.kind = kind

(* ------------------------------ C1 ------------------------------------- *)

\* C1: between(lo, hi, p) on an input of exactly k consecutive matches of p
\* followed by a non-match succeeds with exactly min(k, hi) results when
\* k >= lo, and fails with p's error when k < lo, for every lo and hi.
C1_BetweenCount ==
  (Done("Between") /\ parser.upper_limit.tag = "At") =>
    LET p == parser.parser
        lo == parser.lower_limit
        hi == parser.upper_limit.threshold
        k == LeadingMatches(p, input)
    IN IF k >= lo
       THEN ret.tag = "Ok" /\ Len(ret.value) = Min(k, hi)
       ELSE ret = Err(MismatchError(p, DropCodePoints(input, k)))

(* ------------------------------ C2 ------------------------------------- *)

\* C2: for every code point c, of any encoded width, and every input that
\* starts with c, character(c).parse returns c and the input with exactly its
\* first code point removed.
C2_CharacterMatch ==
  (Done("Character") /\ input # <<>> /\ FirstChar(input) = parser.character_to_match) =>
    ret = Ok(parser.character_to_match, DropFirstCodePoint(input))

(* ------------------------------ C3 ------------------------------------- *)

\* C3: for every code point c and every input that does not start with c,
\* the empty input included, character(c).parse fails with
\* ExpectingCharacter(c) and with no other error.
C3_CharacterMismatch ==
  (Done("Character") /\ ~(input # <<>> /\ FirstChar(input) = parser.character_to_match)) =>
    ret = Err(ExpectingCharacter(parser.character_to_match))

\* character(c) has been called on the empty input and has failed
C3_Witness ==
  /\ Done("Character")
  /\ input = <<>>
  /\ ret = Err(ExpectingCharacter(parser.character_to_match))

(* ------------------------------ C4 ------------------------------------- *)

\* C4: any(p).parse(s) fails with EndOfInput when s is empty, fails with
\* ExpectingPredicate when the first code point of s fails p, and otherwise
\* succeeds with that code point and s with exactly its first code point
\* removed.
C4_AnyOutcomes ==
  Done("Any") =>
    IF input = <<>> THEN ret = Err(EndOfInput)
    ELSE IF FirstChar(input) \notin parser.predicate THEN ret = Err(ExpectingPredicate)
    ELSE ret = Ok(FirstChar(input), DropFirstCodePoint(input))

(* ------------------------------ C5 ------------------------------------- *)

\* C5: map(parser, f).parse(s) succeeds if and only if parser.parse(s)
\* succeeds; on success it returns f of the inner value with the inner
\* remainder, and on failure exactly the inner parser's error.
C5_MapResult ==
  Done("Map") =>
    LET inner == PrimParse(parser.parser, input) IN
    /\ ret.tag = "Ok" <=> inner.tag = "Ok"
    /\ inner.tag = "Ok" => ret = Ok(parser.map[inner.value], inner.rest)
    /\ inner.tag = "Err" => ret = inner

\* a map whose function changes the value has returned a success
C5_Witness ==
  /\ Done("Map")
  /\ ret.tag = "Ok"
  /\ ret.value # PrimParse(parser.parser, input).value
  /\ ret.rest # input

(* ------------------------------ C6 ------------------------------------- *)

\* C6: one_of(options).parse(s) returns the result of the first option, in
\* list order, that succeeds on s itself; when every option fails, or there
\* is none, it fails with ExpectingOneOfToParse whatever the options' errors.
C6_OneOfFirstSuccess ==
  Done("OneOf") =>
    LET attempt(i) == InnerParse(parser.options[i], input)
        n == Len(parser.options)
        succeed == {i \in 1 .. n : attempt(i).tag = "Ok"}
    IN /\ succeed # {} =>
            \E i \in succeed : (\A j \in succeed : i <= j) /\ ret = attempt(i)
       /\ (\A i \in 1 .. n : attempt(i).tag = "Err") => ret = Err(ExpectingOneOfToParse)

\* both options succeed, with different results, and one_of has returned
C6_Witness ==
  /\ Done("OneOf")
  /\ Len(parser.options) = 2
  /\ InnerParse(parser.options[1], input).tag = "Ok"
  /\ InnerParse(parser.options[2], input).tag = "Ok"
  /\ InnerParse(parser.options[2], input) # InnerParse(parser.options[1], input)
  /\ ret.tag = "Ok"

(* ------------------------------ C7 ------------------------------------- *)

IsMany == parser.lower_limit = 0 /\ parser.upper_limit.tag = "Infinity"

\* C7: many(p).parse(s) never fails, returning neither an error nor
\* aborting, and on an input with zero leading matches of p it returns the
\* empty sequence and s itself.
C7_ManyNeverFails ==
  (Done("Between") /\ IsMany) =>
    /\ ret.tag = "Ok"
    /\ ~StartsWithMatch(parser.parser, input) => ret = Ok(<<>>, input)

(* ------------------------------ C8 ------------------------------------- *)

OverPrimitive == parser.kind = "Between" /\ parser.parser.kind \in {"Character", "Any"}

\* C8: every repetition over the Character or Any primitive terminates on
\* every input: the call ends, and each successful inner step removes exactly
\* the first code point of what is left of the input.
C8_RepetitionTerminates ==
  /\ OverPrimitive ~> (pc = "done")
  /\ [][(OverPrimitive /\ Len(result') > Len(result)) =>
          (source # <<>> /\ source' = DropFirstCodePoint(source))]_vars

\* a greedy repetition has collected more than U8Max values and returned
C8_Witness ==
  /\ Done("Between")
  /\ OverPrimitive
  /\ parser.upper_limit.tag = "Infinity"
  /\ ret.tag = "Ok"
  /\ Len(ret.value) > U8Max

(* ------------------------------ C9 ------------------------------------- *)

\* C9: Between::parse returns an error only for a failure among the first
\* lower_limit attempts, and then exactly the inner error; a failure of a
\* later attempt ends the loop, and the parse succeeds with the values of all
\* the successful attempts, in order, and the remainder the last of them left.
C9_BetweenFailures ==
  Done("Between") =>
    /\ ret.tag = "Err" =>
         /\ Len(result) < parser.lower_limit
         /\ ret = InnerParse(parser.parser, source)
         /\ DOMAIN ret = {"tag", "err"}
    /\ ret.tag = "Ok" =>
         LET n == Len(ret.value) IN
         /\ n >= parser.lower_limit
         /\ \A i \in 1 .. n :
              LET attempt == InnerParse(parser.parser, SubSeq(input, i, Len(input))) IN
              attempt.tag = "Ok" /\ attempt.value = ret.value[i]
         /\ ret.rest = SubSeq(input, n + 1, Len(input))
         /\ \/ InnerParse(parser.parser, ret.rest).tag = "Err"
            \/ ~IsBiggerThen(parser.upper_limit, n % (U8Max + 1))

\* after more successes than lower_limit, a failed attempt below the upper
\* limit ended the loop and the parse returned the values
C9_Witness ==
  /\ Done("Between")
  /\ ret.tag = "Ok"
  /\ parser.lower_limit > 0
  /\ Len(ret.value) > parser.lower_limit
  /\ IsBiggerThen(parser.upper_limit, Len(ret.value))
  /\ InnerParse(parser.parser, ret.rest).tag = "Err"

(* ------------------------------ C10 ------------------------------------ *)

\* C10: the u8 counter of Between::parse never overflows: count += 1 never
\* runs at count = 255, so count is the number of values collected.
C10_CountNeverOverflows ==
  parser.kind = "Between" =>
    /\ ret # Panic(OverflowPanic)
    /\ pc \in {"mandatory", "optional", "return"} => count = Len(result)

====
